---- MODULE Spec2Model ----
(***************************************************************************)
(* Two-stage semantic retrieval of metabuilder-dev-service.                *)
(*                                                                         *)
(* One retrieval call is modelled from its entry to its return, on either  *)
(* of the two retrieval entry points of the repository:                    *)
(*   "retriever"          knowledge/retrievers/pinecone_relace/            *)
(*                        async_retriever.py  (embed, search, rerank)      *)
(*   "pinecone_retriever" services/pinecone_retriever.py (embed, search)   *)
(* The providers (embedding service, vector index, rerank service) are the *)
(* environment: each step draws the provider's answer from a bounded set.  *)
(***************************************************************************)
EXTENDS Integers, Sequences, FiniteSets, TLC

(* ------------------------------ bounds -------------------------------- *)

\* Largest number of operations one caller makes on a shared RelaceClient.
MaxOps == 2

\* Largest number of hits the vector index returns in one search.
MaxDocs == 2

\* Largest number of items in one rerank response body.
MaxItems == 2

\* Largest num_documents a caller passes.
MaxNum == 3

(* ----------------------------- constants ------------------------------ *)

\* Sort key of a document without reranking_score: float("-inf").
MinusInf == -1

\* Optional values: None is <<>>, a present value v is <<v>>.
None == <<>>

Some(v) == <<v>>

IsNone(o) == o = <<>>

\* Python truthiness of an Optional[int]: None and 0 are falsy.
Truthy(o) == o # <<>> /\ o[1] # 0

\* file_path values of indexed chunks; "" is a chunk without file_path.
Paths == {"a.py", ""}

\* Filenames the rerank service may name in its response.
FileNames == {"a.py", "b.py", "doc_0.txt"}

\* Relevance scores of the rerank service (numbers, as the provider's
\* contract gives them).
Scores == {1, 2}

\* Marks a filename key that a response item does not have.
Absent == "absent"

\* top_k_after_rerank values a caller passes.
TopKValues == {None, Some(-1), Some(0), Some(1), Some(2)}

Max(a, b) == IF a >= b THEN a ELSE b

Min(a, b) == IF a <= b THEN a ELSE b

(* ------------------------- provider responses ------------------------- *)

\* Embedding responses: a transport error / non-200, or a 200 body in which
\* each of the keys `results` and `data` is absent, empty or holds a vector.
EmbedResponses ==
    { [status |-> "error", results |-> "absent", data |-> "absent"],
      [status |-> "ok", results |-> "one", data |-> "absent"],
      [status |-> "ok", results |-> "absent", data |-> "one"],
      [status |-> "ok", results |-> "empty", data |-> "absent"],
      [status |-> "ok", results |-> "absent", data |-> "absent"] }

\* Sequences over S of length at most n.
SeqUpTo(S, n) == UNION { [1..k -> S] : k \in 0..n }

\* The search results vector_db.search returns: Documents whose content is
\* empty and whose metadata holds the chunk's text under `content` (the
\* indexer stores it there). Ids are unique in the index, so the hits of one
\* search carry pairwise distinct ids: the hit at position i has id i. The
\* index returns its hits by descending similarity: the hit at position i
\* has score MaxDocs + 1 - i.
Hits(n) ==
    { h \in SeqUpTo([kind : {"Document"}, id : 1..MaxDocs, file_path : Paths,
                     content : {""}, meta_content : {"code"},
                     score : 1..MaxDocs], n) :
        \A i \in 1..Len(h) : h[i].id = i /\ h[i].score = MaxDocs + 1 - i }

\* One item of a rerank response: a record whose filename / score may be
\* missing (filename Absent, score None).
Items ==
    [filename : FileNames, score : {Some(s) : s \in Scores}]
      \cup { [filename |-> "a.py", score |-> None] }

\* Rerank responses: an error (transport error or non-200 status), or a 200
\* status with a body that is {results: [...]}, a bare list, {results: <not
\* a list>} or anything else.
RerankResponses ==
    { [status |-> "error", shape |-> "none", items |-> <<>>],
      [status |-> "ok", shape |-> "results_not_list", items |-> <<>>],
      [status |-> "ok", shape |-> "other", items |-> <<>>] }
      \cup [status : {"ok"}, shape : {"envelope", "list"},
            items : SeqUpTo(Items, MaxItems)]

\* The response slot before the rerank service was called.
NoResponse == [status |-> "none", shape |-> "none", items |-> <<>>]

(* --------------------------- clients/relace.py ------------------------ *)

\* IsValidItem that only asks for the filename.
IsValidItem_FilenameOnly(item) == item.filename # Absent

\* isinstance(item, dict) and "filename" in item and "score" in item
IsValidItem(item) == item.filename # Absent /\ item.score # None

\* The validation loop: the well-formed items, in their order.
validated_results(items) == SelectSeq(items, IsValidItem)

\* validated_results_list that hands the bare list on as it came.
validated_results_list_Raw(items) == items

\* The validation loop of the bare-list branch (a second copy of the loop).
validated_results_list(items) == SelectSeq(items, IsValidItem)

\* What rank_code_files does with a 200 body of unrecognized shape: it logs
\* an error and returns [].
OnUnexpectedShape == [raised |-> FALSE, value |-> <<>>]

\* RelaceClient.rank_code_files for a non-empty codebase: raises on a
\* non-200 status or transport error, else the validated items.
rank_code_files(resp) ==
    IF resp.status # "ok"
      THEN [raised |-> TRUE, value |-> <<>>]
      ELSE IF resp.shape = "envelope"
             THEN [raised |-> FALSE, value |-> validated_results(resp.items)]
             ELSE IF resp.shape = "list"
                    THEN [raised |-> FALSE, value |-> validated_results_list(resp.items)]
                    ELSE OnUnexpectedShape

\* RankPosts that posts whatever the codebase holds.
RankPosts_Always(codebase) == TRUE

\* Whether rank_code_files / rank_code_files_sync issue their POST: an empty
\* codebase returns [] before any request is built.
RankPosts(codebase) == codebase # <<>>

\* RelaceClient.rank_code_files called with `codebase`; resp is the
\* service's answer if it is asked.
rank_code_files_async(codebase, resp) ==
    IF ~RankPosts(codebase)
      THEN [raised |-> FALSE, value |-> <<>>]
      ELSE rank_code_files(resp)

\* RelaceClient.rank_code_files_sync: the same steps over requests.post.
rank_code_files_sync(codebase, resp) ==
    IF ~RankPosts(codebase)
      THEN [raised |-> FALSE, value |-> <<>>]
      ELSE IF resp.status # "ok"
             THEN [raised |-> TRUE, value |-> <<>>]
             ELSE IF resp.shape = "envelope"
                    THEN [raised |-> FALSE, value |-> validated_results(resp.items)]
                    ELSE IF resp.shape = "list"
                           THEN [raised |-> FALSE, value |-> validated_results_list(resp.items)]
                           ELSE [raised |-> FALSE, value |-> <<>>]

(* -------------------------- reranker/relace.py ------------------------ *)

\* The synthesized placeholders f"doc_{i}.txt" for i = 0, 1, ...
DocPlaceholders ==
    <<"doc_0.txt", "doc_1.txt", "doc_2.txt", "doc_3.txt", "doc_4.txt">>

\* doc.name or f"doc_{i}.txt", for the document at (1-based) position i.
Filename(documents, i) ==
    IF documents[i].name # "" THEN documents[i].name ELSE DocPlaceholders[i]

\* filename_to_doc that keeps the first document of each filename.
filename_to_doc_first(documents) ==
    [f \in {Filename(documents, i) : i \in 1..Len(documents)} |->
        CHOOSE i \in 1..Len(documents) :
            /\ Filename(documents, i) = f
            /\ \A j \in 1..Len(documents) :
                   Filename(documents, j) = f => i <= j]

\* The filename_to_doc loop: the dictionary is assigned in candidate order,
\* so a filename maps to the position of the last document that has it.
filename_to_doc(documents) ==
    [f \in {Filename(documents, i) : i \in 1..Len(documents)} |->
        CHOOSE i \in 1..Len(documents) :
            /\ Filename(documents, i) = f
            /\ \A j \in 1..Len(documents) :
                   Filename(documents, j) = f => j <= i]

\* The loop over results_list. acc.order is compressed_docs as document
\* positions (the list holds references to the candidate objects), and
\* acc.score is each candidate's reranking_score, which a later item for the
\* same filename overwrites.
RECURSIVE MatchLoop(_, _, _, _)
MatchLoop(results_list, k, f2d, acc) ==
    IF k > Len(results_list)
      THEN acc
      ELSE LET item == results_list[k]
           IN IF IsValidItem(item) /\ item.filename \in DOMAIN f2d
                THEN MatchLoop(results_list, k + 1, f2d,
                       [score |-> [acc.score EXCEPT ![f2d[item.filename]] = item.score],
                        order |-> Append(acc.order, f2d[item.filename])])
                ELSE MatchLoop(results_list, k + 1, f2d, acc)

\* MatchResults that keeps the candidates no item matched, unscored, behind
\* the matched ones.
MatchResults_KeepUnmatched(documents, results_list) ==
    LET acc == MatchLoop(results_list, 1, filename_to_doc(documents),
                         [score |-> [i \in 1..Len(documents) |-> documents[i].reranking_score],
                          order |-> <<>>])
        matched == [j \in 1..Len(acc.order) |->
                      [documents[acc.order[j]] EXCEPT !.reranking_score = acc.score[acc.order[j]]]]
        unmatched(d) == \A j \in 1..Len(acc.order) : documents[acc.order[j]].id # d.id
    IN matched \o SelectSeq(documents, unmatched)

\* compressed_docs before the sort: the matched documents in response order,
\* each read with the reranking_score it holds after the whole loop.
MatchResults(documents, results_list) ==
    LET acc == MatchLoop(results_list, 1, filename_to_doc(documents),
                         [score |-> [i \in 1..Len(documents) |-> documents[i].reranking_score],
                          order |-> <<>>])
    IN [j \in 1..Len(acc.order) |->
          [documents[acc.order[j]] EXCEPT !.reranking_score = acc.score[acc.order[j]]]]

\* key=lambda x: x.reranking_score if x.reranking_score is not None else -inf
SortKey(doc) ==
    IF IsNone(doc.reranking_score) THEN MinusInf ELSE doc.reranking_score[1]

\* Insert doc behind every element whose key is at least its own.
RECURSIVE InsertByScore(_, _)
InsertByScore(doc, sorted) ==
    IF sorted = <<>> THEN <<doc>>
    ELSE IF SortKey(Head(sorted)) >= SortKey(doc)
           THEN <<Head(sorted)>> \o InsertByScore(doc, Tail(sorted))
           ELSE <<doc>> \o sorted

\* Insert doc in front of every element whose key is at most its own.
RECURSIVE InsertBeforeTies(_, _)
InsertBeforeTies(doc, sorted) ==
    IF sorted = <<>> THEN <<doc>>
    ELSE IF SortKey(Head(sorted)) > SortKey(doc)
           THEN <<Head(sorted)>> \o InsertBeforeTies(doc, Tail(sorted))
           ELSE <<doc>> \o sorted

\* SortByScore that is descending but turns the order of equal keys around.
RECURSIVE SortByScore_TiesReversed(_)
SortByScore_TiesReversed(docs) ==
    IF docs = <<>> THEN <<>>
    ELSE InsertBeforeTies(docs[Len(docs)],
                          SortByScore_TiesReversed(SubSeq(docs, 1, Len(docs) - 1)))

\* SortByScore with the sort left out.
SortByScore_Unsorted(docs) == docs

\* list.sort(key=..., reverse=True): descending by key, stable.
RECURSIVE SortByScore(_)
SortByScore(docs) ==
    IF docs = <<>> THEN <<>>
    ELSE InsertByScore(docs[Len(docs)], SortByScore(SubSeq(docs, 1, Len(docs) - 1)))

\* top_n as _rerank_async uses it: a truthy top_n that is not positive is
\* replaced by None (with a warning).
EffectiveTopN(top_n) ==
    IF Truthy(top_n) /\ ~(0 < top_n[1]) THEN None ELSE top_n

\* if top_n: compressed_docs = compressed_docs[:top_n]
LimitTopN(compressed_docs, top_n) ==
    IF Truthy(top_n)
      THEN SubSeq(compressed_docs, 1, Min(top_n[1], Len(compressed_docs)))
      ELSE compressed_docs

\* OnRerankError that hands the documents back in reverse order.
OnRerankError_Reversed(documents) ==
    [i \in 1..Len(documents) |-> documents[Len(documents) + 1 - i]]

\* OnRerankError with the fallback lost: the failure empties the result.
OnRerankError_Empty(documents) == <<>>

\* The except branch of _rerank_async: log and return the documents passed in.
OnRerankError(documents) == documents

\* RelaceReranker._rerank_async (and rerank_async, which only wraps it).
rerank_async(documents, top_n, resp) ==
    IF documents = <<>> THEN <<>>
    ELSE LET results_list == rank_code_files(resp)
         IN IF results_list.raised
              THEN OnRerankError(documents)
              ELSE LimitTopN(SortByScore(MatchResults(documents, results_list.value)),
                             EffectiveTopN(top_n))

\* The codebase sent to the rerank service: one file per document.
Codebase(documents) == [i \in 1..Len(documents) |-> Filename(documents, i)]

\* LimitTopNSync without the positivity guard: compressed_docs[:top_n] for
\* every truthy top_n, so a negative top_n drops the last -top_n documents.
LimitTopNSync_NoGuard(compressed_docs, top_n) ==
    IF Truthy(top_n)
      THEN IF top_n[1] > 0
             THEN SubSeq(compressed_docs, 1, Min(top_n[1], Len(compressed_docs)))
             ELSE SubSeq(compressed_docs, 1, Max(0, Len(compressed_docs) + top_n[1]))
      ELSE compressed_docs

\* if top_n and (0 < top_n): compressed_docs = compressed_docs[:top_n]
LimitTopNSync(compressed_docs, top_n) ==
    IF Truthy(top_n) /\ 0 < top_n[1]
      THEN SubSeq(compressed_docs, 1, Min(top_n[1], Len(compressed_docs)))
      ELSE compressed_docs

\* RelaceReranker._rerank (and rerank, which only wraps it): no early return
\* on empty documents; the client is called with the codebase built.
rerank_sync(documents, top_n, resp) ==
    LET results_list == rank_code_files_sync(Codebase(documents), resp)
    IN IF results_list.raised
         THEN documents
         ELSE LimitTopNSync(SortByScore(MatchResults(documents, results_list.value)),
                            top_n)

\* The unsorted, untruncated list a successful rerank builds (compressed_docs
\* after the sort), kept to state what the truncation does.
SortedMatches(documents, resp) ==
    SortByScore(MatchResults(documents, rank_code_files(resp).value))

(* --------------------------- embedder/relace.py ----------------------- *)

\* RelaceEmbedder.get_embedding: the first vector under `results`, else the
\* first under `data`, else []; an error of the client is caught and gives
\* [] as well. "vec" is a vector of the index's dimension, "empty" is [].
get_embedding(resp) ==
    IF resp.status # "ok" THEN "empty"
    ELSE IF resp.results = "one" THEN "vec"
    ELSE IF resp.data = "one" THEN "vec"
    ELSE "empty"

(* ------------- knowledge/retrievers/pinecone_relace/async_retriever.py -- *)

\* InitialTopN with the half rounded up.
InitialTopN_RoundUp(top_k, n) ==
    IF Truthy(top_k) THEN top_k ELSE Some(Max(1, (n + 1) \div 2))

\* top_n=top_k_after_rerank or max(1, num_documents // 2)
InitialTopN(top_k, n) ==
    IF Truthy(top_k) THEN top_k ELSE Some(Max(1, n \div 2))

\* NormalizeContent that always takes the metadata's content.
NormalizeContent_MetaOnly(hit) ==
    IF hit.meta_content = Absent THEN "" ELSE hit.meta_content

\* The content of the normalized document. A Document keeps its content
\* unless that is empty and the metadata has a `content` key; a dict result
\* (id, score, metadata) gets metadata.get('content', '').
NormalizeContent(hit) ==
    IF hit.kind = "Document"
      THEN IF hit.meta_content # Absent /\ hit.content = ""
             THEN hit.meta_content
             ELSE hit.content
      ELSE IF hit.meta_content = Absent THEN "" ELSE hit.meta_content

\* A document's meta_data: None, the empty mapping, or a mapping with keys
\* (the normalization always leaves one, with the namespace in it).
MetaDatas == {"None", "{}", "{namespace}"}

\* The normalization loop: the document's name is the file_path of the hit
\* ("" when the hit has none); no reranking_score yet. ann_score is the
\* similarity score the hit came with.
Normalize(hits) ==
    [i \in 1..Len(hits) |->
        [id |-> hits[i].id, name |-> hits[i].file_path,
         content |-> NormalizeContent(hits[i]),
         meta_data |-> "{namespace}",
         ann_score |-> hits[i].score, reranking_score |-> None]]

\* FormatMetadata that passes the meta_data on as it is.
FormatMetadata_Raw(meta_data) == meta_data

\* doc.meta_data or {}
FormatMetadata(meta_data) ==
    IF meta_data \in {"None", "{}"} THEN "{}" ELSE meta_data

\* Format that returns the documents in reverse order.
Format_Reversed(docs) ==
    [i \in 1..Len(docs) |->
        [id |-> docs[Len(docs) + 1 - i].id, name |-> docs[Len(docs) + 1 - i].name,
         content |-> docs[Len(docs) + 1 - i].content,
         metadata |-> FormatMetadata(docs[Len(docs) + 1 - i].meta_data)]]

\* The flat records returned to the agent: content, id, name, metadata.
Format(docs) ==
    [i \in 1..Len(docs) |->
        [id |-> docs[i].id, name |-> docs[i].name, content |-> docs[i].content,
         metadata |-> FormatMetadata(docs[i].meta_data)]]

\* OnNoMatches that reports the failure outcome for an empty search.
OnNoMatches_None == [outcome |-> "None", result |-> <<>>]

\* The else branch for an empty query_response: return [].
OnNoMatches == [outcome |-> "list", result |-> <<>>]

(* ------------------------ services/pinecone_retriever.py -------------- *)

\* The embedding step of pinecone_retriever: raise_for_status, then only the
\* `results` key is read. TRUE when the step raises.
PineconeEmbedFails(resp) == resp.status # "ok" \/ resp.results # "one"

\* The records built from query_response.matches.
FormatMatches(hits) ==
    [i \in 1..Len(hits) |->
        [id |-> hits[i].id, name |-> hits[i].file_path,
         content |-> IF hits[i].meta_content = Absent THEN "" ELSE hits[i].meta_content]]

(* ------------------------------- state -------------------------------- *)

VARIABLES
    path,                 \* the entry point that was called
    pinecone_api_key,     \* PINECONE_API_KEY is set
    relace_api_key,       \* RELACE_API_KEY is set
    rerank,               \* argument rerank
    top_k_after_rerank,   \* argument top_k_after_rerank (Optional[int])
    num_documents,        \* argument num_documents
    query,                \* argument query
    pc,                   \* position of the call
    embed_resp,           \* the embedding service's response, once called
    embedding,            \* the query vector: "unset", "vec" or "empty"
    search_status,        \* "none", "ok" or "error"
    documents,            \* the normalized documents before reranking
    rerank_resp,          \* the rerank service's response, once called
    compressed_docs,      \* compressed_docs after the sort, before the limit
    final_documents,      \* `documents` as it is formatted for the caller
    outcome,              \* "pending", "None" (failure) or "list"
    result,               \* the returned list when outcome = "list"
    calls,                \* the network calls made so far, in order
    in_flight,            \* the network calls issued and not yet completed
    input,                \* the arguments of a direct call of a component
    output,               \* what a direct call of a component returned
    silent,               \* the provider will never answer the call in flight
    sessions,             \* the HTTP sessions of the call's clients
    git,                  \* what a git tool did so far
    client,               \* a RelaceClient shared by several callers
    callers,              \* the callers of the shared RelaceClient
    retrievals,           \* retrieval calls running side by side
    rerankers             \* the RelaceReranker objects of those calls

vars == <<path, pinecone_api_key, relace_api_key, rerank, top_k_after_rerank,
          num_documents, query, pc, embed_resp, embedding, search_status,
          documents, rerank_resp, compressed_docs, final_documents, outcome,
          result, calls, in_flight, input, output, silent, sessions, git,
          client, callers, retrievals, rerankers>>

\* The state of the shared-client and the side-by-side scenarios, which a
\* single call never touches.
elsewhere == <<client, callers, retrievals, rerankers>>

args == <<path, pinecone_api_key, relace_api_key, rerank, top_k_after_rerank,
          num_documents, query, input>>

NoEmbedResponse == [status |-> "none", results |-> "absent", data |-> "absent"]

\* The query strings a caller passes: the empty string and a real query.
Queries == {"", "q"}

\* The HTTP sessions a call can hold: the aiohttp session of the embedder's
\* and of the reranker's RelaceClient, and the httpx client of
\* pinecone_retriever. Each is "none" (never opened), "open" or "closed".
NoSessions == [embedder |-> "none", reranker |-> "none", httpx |-> "none"]

\* RelaceClient._get_session: a session is created unless an open one is
\* there.
GetSession(session) == IF session \in {"none", "closed"} THEN "open" ELSE session

\* RelaceClient.close: an open session is closed, nothing else happens.
CloseSession(session) == IF session = "open" THEN "closed" ELSE session

\* The finally block of retriever: await embedder.close().
Finally(s) == [s EXCEPT !.embedder = CloseSession(@)]

\* Whether the network call `call` of entry point p gives up by itself when
\* the provider stays silent: the embedder's requests.post is made without
\* a timeout; the rerank POST runs under the aiohttp session's default total
\* timeout, the httpx POST under timeout=30.0, and the calls of the index
\* client under that client's defaults.
HasTimeout(p, call) == ~(p = "retriever" /\ call = "embed")

\* A git tool before it ran: no directory git ran in, no step done, no
\* commit made, nothing pushed, commit_hash not yet assigned.
NoGit ==
    [cwds |-> {}, add |-> "none", commit |-> "none", push |-> "none",
     committed |-> FALSE, pushed |-> FALSE, commit_hash |-> "none"]

\* No shared client, no concurrent calls.
NoneElsewhere ==
    /\ client = <<>>
    /\ callers = <<>>
    /\ retrievals = <<>>
    /\ rerankers = <<>>

\* The state of a call at its entry, before anything ran.
AtEntry ==
    /\ pc = "start"
    /\ embed_resp = NoEmbedResponse
    /\ embedding = "unset"
    /\ search_status = "none"
    /\ documents = <<>>
    /\ rerank_resp = NoResponse
    /\ compressed_docs = <<>>
    /\ final_documents = <<>>
    /\ outcome = "pending"
    /\ result = <<>>
    /\ calls = <<>>
    /\ in_flight = {}
    /\ output = <<>>
    /\ silent = FALSE
    /\ sessions = NoSessions
    /\ git = NoGit

Init ==
    /\ path \in {"retriever", "pinecone_retriever"}
    /\ pinecone_api_key \in BOOLEAN
    /\ relace_api_key \in BOOLEAN
    /\ rerank \in BOOLEAN
    /\ top_k_after_rerank \in TopKValues
    /\ num_documents \in 0..MaxNum
    /\ query \in Queries
    \* pinecone_retriever has neither argument
    /\ path = "pinecone_retriever" => (~rerank /\ top_k_after_rerank = None)
    /\ input = <<>>
    /\ AtEntry
    /\ NoneElsewhere

\* ReturnNone that reports a failure as the empty list.
ReturnNone_EmptyList ==
    /\ pc' = "done"
    /\ outcome' = "list"
    /\ result' = <<>>

\* return None (directly, or through the outer except)
ReturnNone ==
    /\ pc' = "done"
    /\ outcome' = "None"
    /\ result' = <<>>

\* return a list
ReturnList(l) ==
    /\ pc' = "done"
    /\ outcome' = "list"
    /\ result' = l

\* Await that goes on to the next stage without waiting for the answer.
Await_NoWait(call) ==
    CASE call = "list_indexes" -> "embed"
      [] call = "embed" -> "search"
      [] call = "search" -> "rerank"
      [] call = "rerank" -> "await_rerank"

\* The position of a call that has issued a network call: every one of them
\* is a blocking call or an awaited coroutine, so the call stays there until
\* the answer (or the error) is back.
Await(call) ==
    CASE call = "list_indexes" -> "await_list_indexes"
      [] call = "embed" -> "await_embed"
      [] call = "search" -> "await_search"
      [] call = "rerank" -> "await_rerank"

\* KeysMissing that only looks at the index's key.
KeysMissing_PineconeOnly(pinecone_key, relace_key) == ~pinecone_key

\* if not relace_api_key: ... ; if not pinecone_api_key: ...
KeysMissing(pinecone_key, relace_key) == ~pinecone_key \/ ~relace_key

(* ----------------------- retriever (async_retriever.py) --------------- *)

\* The environment check and the construction of embedder, reranker and
\* vector_db; no network call. The query is not looked at.
RetrieverStart ==
    /\ path = "retriever" /\ pc = "start"
    /\ IF KeysMissing(pinecone_api_key, relace_api_key)
         THEN ReturnNone
         ELSE pc' = "embed" /\ UNCHANGED <<outcome, result>>
    /\ UNCHANGED <<args, elsewhere, git, embed_resp, embedding, search_status, documents,
                   rerank_resp, compressed_docs, final_documents, calls,
                   in_flight, output, silent, sessions>>

\* A network call goes out: the embedding POST and the index query inside
\* vector_db.search, the rerank POST inside reranker.rerank_async.
\* The embedding POST goes out through RelaceEmbedder.get_embedding and
\* generate_embeddings_sync.
RetrieverIssue ==
    /\ path = "retriever" /\ pc \in {"embed", "search", "rerank"}
    /\ calls' = Append(calls, pc)
    /\ in_flight' = in_flight \cup {pc}
    /\ pc' = Await(pc)
    /\ silent' \in BOOLEAN
    \* the embedder posts with requests (no session); rank_code_files gets
    \* the reranker client's session before it posts
    /\ sessions' = IF pc = "rerank"
                     THEN [sessions EXCEPT !.reranker = GetSession(@)]
                     ELSE sessions
    /\ UNCHANGED <<args, elsewhere, git, embed_resp, embedding, search_status, documents,
                   rerank_resp, compressed_docs, final_documents, outcome,
                   result, output>>

\* vector_db.search first embeds the query with the configured embedder
\* (RelaceEmbedder.get_embedding), which never raises.
RetrieverEmbed ==
    /\ path = "retriever" /\ pc = Await("embed")
    /\ ~silent \/ HasTimeout(path, "embed")
    /\ \E resp \in EmbedResponses :
         /\ silent => resp.status = "error"
         /\ embed_resp' = resp
         /\ embedding' = get_embedding(resp)
    /\ in_flight' = in_flight \ {"embed"}
    /\ pc' = "search"
    /\ silent' = FALSE
    /\ UNCHANGED <<args, elsewhere, git, search_status, documents, rerank_resp, compressed_docs,
                   final_documents, outcome, result, calls, output, sessions>>

\* vector_db.search then queries the index with the vector it got. The index
\* has dimension 1024 and rejects the empty vector; otherwise it fails or
\* returns at most `limit` hits. An exception leaves through the outer
\* except. With hits, the documents are normalized and either handed to the
\* reranker or formatted and returned.
RetrieverSearch ==
    /\ path = "retriever" /\ pc = Await("search")
    /\ ~silent \/ HasTimeout(path, "search")
    /\ in_flight' = in_flight \ {"search"}
    /\ silent' = FALSE
    /\ \E ok \in BOOLEAN, hits \in Hits(Min(num_documents, MaxDocs)) :
         IF embedding # "vec" \/ ~ok \/ silent
           THEN /\ hits = <<>>
                /\ search_status' = "error"
                /\ ReturnNone
                /\ UNCHANGED <<documents, final_documents>>
           ELSE /\ search_status' = "ok"
                /\ documents' = Normalize(hits)
                /\ final_documents' = Normalize(hits)
                /\ IF hits = <<>>
                     THEN /\ pc' = "done"
                          /\ outcome' = OnNoMatches.outcome
                          /\ result' = OnNoMatches.result
                     ELSE IF rerank
                            THEN pc' = "rerank" /\ UNCHANGED <<outcome, result>>
                            ELSE ReturnList(Format(Normalize(hits)))
    \* the finally block runs when the call leaves the inner try
    /\ sessions' = IF pc' = "done" THEN Finally(sessions) ELSE sessions
    /\ UNCHANGED <<args, elsewhere, git, embed_resp, embedding, rerank_resp, compressed_docs,
                   calls, output>>

\* reranker.rerank_async on the non-empty documents, then the formatting of
\* what it returns.
RetrieverRerank ==
    /\ path = "retriever" /\ pc = Await("rerank")
    /\ ~silent \/ HasTimeout(path, "rerank")
    /\ in_flight' = in_flight \ {"rerank"}
    /\ silent' = FALSE
    /\ sessions' = Finally(sessions)
    /\ \E resp \in RerankResponses :
         /\ silent => resp.status = "error"
         /\ rerank_resp' = resp
         /\ compressed_docs' = SortedMatches(documents, resp)
         /\ final_documents' = rerank_async(documents, InitialTopN(top_k_after_rerank, num_documents), resp)
         /\ ReturnList(Format(final_documents'))
    /\ UNCHANGED <<args, elsewhere, git, embed_resp, embedding, search_status, documents,
                   calls, output>>

(* ------------------ pinecone_retriever (services) --------------------- *)

\* The environment check; a missing key raises ValueError, caught at the end.
PineconeStart ==
    /\ path = "pinecone_retriever" /\ pc = "start"
    /\ IF KeysMissing(pinecone_api_key, relace_api_key)
         THEN ReturnNone
         ELSE pc' = "list_indexes" /\ UNCHANGED <<outcome, result>>
    /\ UNCHANGED <<args, elsewhere, git, embed_resp, embedding, search_status, documents,
                   rerank_resp, compressed_docs, final_documents, calls,
                   in_flight, output, silent, sessions>>

\* A network call goes out: pc.list_indexes(), the embedding POST or
\* index.query.
PineconeIssue ==
    /\ path = "pinecone_retriever" /\ pc \in {"list_indexes", "embed", "search"}
    /\ calls' = Append(calls, pc)
    /\ in_flight' = in_flight \cup {pc}
    /\ pc' = Await(pc)
    /\ silent' \in BOOLEAN
    \* async with httpx.AsyncClient() as client
    /\ sessions' = IF pc = "embed"
                     THEN [sessions EXCEPT !.httpx = "open"]
                     ELSE sessions
    /\ UNCHANGED <<args, elsewhere, git, embed_resp, embedding, search_status, documents,
                   rerank_resp, compressed_docs, final_documents, outcome,
                   result, output>>

\* pc.list_indexes().names(): the index is there, is not there, or the call
\* fails.
PineconeListIndexes ==
    /\ path = "pinecone_retriever" /\ pc = Await("list_indexes")
    /\ ~silent \/ HasTimeout(path, "list_indexes")
    /\ in_flight' = in_flight \ {"list_indexes"}
    /\ silent' = FALSE
    /\ \E r \in {"found", "missing", "error"} :
         /\ silent => r = "error"
         /\ IF r = "found"
              THEN pc' = "embed" /\ UNCHANGED <<outcome, result>>
              ELSE ReturnNone
    /\ UNCHANGED <<args, elsewhere, git, embed_resp, embedding, search_status, documents,
                   rerank_resp, compressed_docs, final_documents, calls, output,
                   sessions>>

\* The embedding POST; any failure raises and the call returns None.
PineconeEmbed ==
    /\ path = "pinecone_retriever" /\ pc = Await("embed")
    /\ ~silent \/ HasTimeout(path, "embed")
    /\ in_flight' = in_flight \ {"embed"}
    /\ silent' = FALSE
    \* leaving the `async with` block closes the httpx client
    /\ sessions' = [sessions EXCEPT !.httpx = "closed"]
    /\ \E resp \in EmbedResponses :
         /\ silent => resp.status = "error"
         /\ embed_resp' = resp
         /\ IF PineconeEmbedFails(resp)
              THEN ReturnNone /\ UNCHANGED embedding
              ELSE /\ embedding' = "vec"
                   /\ pc' = "search"
                   /\ UNCHANGED <<outcome, result>>
    /\ UNCHANGED <<args, elsewhere, git, search_status, documents, rerank_resp, compressed_docs,
                   final_documents, calls, output>>

\* index.query and the conversion of its matches.
PineconeSearch ==
    /\ path = "pinecone_retriever" /\ pc = Await("search")
    /\ ~silent \/ HasTimeout(path, "search")
    /\ in_flight' = in_flight \ {"search"}
    /\ silent' = FALSE
    /\ \E ok \in BOOLEAN, hits \in Hits(Min(num_documents, MaxDocs)) :
         IF ~ok \/ silent
           THEN /\ hits = <<>>
                /\ search_status' = "error"
                /\ ReturnNone
                /\ UNCHANGED <<documents, final_documents>>
           ELSE /\ search_status' = "ok"
                /\ documents' = Normalize(hits)
                /\ final_documents' = Normalize(hits)
                /\ ReturnList(FormatMatches(hits))
    /\ UNCHANGED <<args, elsewhere, git, embed_resp, embedding, rerank_resp, compressed_docs,
                   calls, output, sessions>>

Next ==
    \/ RetrieverStart
    \/ RetrieverIssue
    \/ RetrieverEmbed
    \/ RetrieverSearch
    \/ RetrieverRerank
    \/ PineconeStart
    \/ PineconeIssue
    \/ PineconeListIndexes
    \/ PineconeEmbed
    \/ PineconeSearch

Spec == Init /\ [][Next]_vars

(* --------------------- direct calls of the components ----------------- *)

\* The rerank client, the reranker and the normalization loop called on
\* their own, with every argument their signature admits (in the pipeline
\* they only see what the stage before them hands on).
DirectPaths ==
    {"rank_code_files", "rank_code_files_sync", "rerank_async", "rerank",
     "normalize", "format"}

\* Items of a rerank response body, well-formed or not: the filename or the
\* score may be missing; an item with neither also stands for an item that
\* is not a record at all.
RawItems == [filename : {"a.py", "b.py", Absent}, score : {None, Some(1)}]

\* Rerank responses over RawItems.
RawRerankResponses ==
    { [status |-> "error", shape |-> "none", items |-> <<>>],
      [status |-> "ok", shape |-> "results_not_list", items |-> <<>>],
      [status |-> "ok", shape |-> "other", items |-> <<>>] }
      \cup [status : {"ok"}, shape : {"envelope", "list"},
            items : SeqUpTo(RawItems, MaxItems)]

\* Search results as the normalization loop may meet them: a Document with
\* or without content of its own, or a dict (id, score, metadata), each with
\* the metadata key `content` missing, empty or set.
RawResults ==
    [kind : {"Document"}, id : {1}, file_path : {"a.py"},
     content : {"", "own"}, meta_content : {Absent, "", "code"}, score : {1}]
      \cup [kind : {"dict"}, id : {1}, file_path : {"a.py"},
            content : {""}, meta_content : {Absent, "", "code"}, score : {1}]

\* Documents as the formatting loop may meet them: with any meta_data.
FormatDocs ==
    [id : 1..MaxDocs, name : {"a.py"}, content : {"code"}, meta_data : MetaDatas,
     ann_score : {1}, reranking_score : {None}]

\* The arguments of a direct call.
DirectInputs(p) ==
    CASE p \in {"rank_code_files", "rank_code_files_sync"} ->
           [codebase : SeqUpTo({"a.py"}, 1), resp : RawRerankResponses]
      [] p \in {"rerank_async", "rerank"} ->
           [documents : {Normalize(h) : h \in Hits(MaxDocs)},
            top_n : TopKValues, resp : RerankResponses]
      [] p = "normalize" -> SeqUpTo(RawResults, MaxDocs)
      [] p = "format" -> SeqUpTo(FormatDocs, MaxDocs)

DirectInit ==
    /\ path \in DirectPaths
    /\ input \in DirectInputs(path)
    /\ pinecone_api_key = TRUE
    /\ relace_api_key = TRUE
    /\ rerank = FALSE
    /\ top_k_after_rerank = None
    /\ num_documents = 0
    /\ query = "q"
    /\ AtEntry
    /\ NoneElsewhere

\* What a direct call leaves alone.
DirectUnchanged ==
    UNCHANGED <<args, elsewhere, embed_resp, embedding, search_status, documents,
                rerank_resp, compressed_docs, final_documents, outcome,
                result, in_flight, silent, sessions>>

\* await client.rank_code_files(query, codebase, token_limit)
CallRankCodeFiles ==
    /\ path = "rank_code_files" /\ pc = "start"
    /\ calls' = IF RankPosts(input.codebase) THEN <<"rerank">> ELSE <<>>
    /\ output' = rank_code_files_async(input.codebase, input.resp)
    /\ pc' = "done"
    /\ DirectUnchanged
    /\ UNCHANGED git

\* client.rank_code_files_sync(query, codebase, token_limit)
CallRankCodeFilesSync ==
    /\ path = "rank_code_files_sync" /\ pc = "start"
    /\ calls' = IF RankPosts(input.codebase) THEN <<"rerank">> ELSE <<>>
    /\ output' = rank_code_files_sync(input.codebase, input.resp)
    /\ pc' = "done"
    /\ DirectUnchanged
    /\ UNCHANGED git

\* await reranker.rerank_async(query, documents): the client is only
\* reached with documents, and then with one file per document.
CallRerankAsync ==
    /\ path = "rerank_async" /\ pc = "start"
    /\ calls' = IF input.documents # <<>> /\ RankPosts(Codebase(input.documents))
                  THEN <<"rerank">> ELSE <<>>
    /\ output' = rerank_async(input.documents, input.top_n, input.resp)
    /\ pc' = "done"
    /\ DirectUnchanged
    /\ UNCHANGED git

\* reranker.rerank(query, documents)
CallRerank ==
    /\ path = "rerank" /\ pc = "start"
    /\ calls' = IF RankPosts(Codebase(input.documents)) THEN <<"rerank">> ELSE <<>>
    /\ output' = rerank_sync(input.documents, input.top_n, input.resp)
    /\ pc' = "done"
    /\ DirectUnchanged
    /\ UNCHANGED git

\* The normalization loop of retriever over the search results.
CallNormalize ==
    /\ path = "normalize" /\ pc = "start"
    /\ output' = Normalize(input)
    /\ pc' = "done"
    /\ UNCHANGED calls
    /\ DirectUnchanged
    /\ UNCHANGED git

\* The formatting loop of retriever over the final documents.
CallFormat ==
    /\ path = "format" /\ pc = "start"
    /\ output' = Format(input)
    /\ pc' = "done"
    /\ UNCHANGED calls
    /\ DirectUnchanged
    /\ UNCHANGED git

DirectNext ==
    \/ CallRankCodeFiles
    \/ CallRankCodeFilesSync
    \/ CallRerankAsync
    \/ CallRerank
    \/ CallNormalize
    \/ CallFormat

(* ------------------- git tools (tools/git, git_tools.py) -------------- *)

\* The base directory of the git tools (the dev folder, or the base_dir of
\* GitTools), as the components of its absolute path.
BaseDir == <<"srv", "dev">>

\* repo_name arguments: a plain name, a relative path that climbs out of the
\* base directory, and an absolute path.
RepoNames ==
    { [absolute |-> FALSE, parts |-> <<"repo">>],
      [absolute |-> FALSE, parts |-> <<"..", "other">>],
      [absolute |-> TRUE, parts |-> <<"srv", "other">>] }

\* base / repo_name as pathlib joins them: an absolute right operand
\* replaces the left one.
JoinPath(base, name) ==
    IF name.absolute THEN name.parts ELSE base \o name.parts

\* The directory a path names once the system has followed its ".." parts.
RECURSIVE ResolvePath(_, _)
ResolvePath(parts, acc) ==
    IF parts = <<>> THEN acc
    ELSE IF Head(parts) = ".."
           THEN ResolvePath(Tail(parts), SubSeq(acc, 1, Max(0, Len(acc) - 1)))
           ELSE ResolvePath(Tail(parts), Append(acc, Head(parts)))

\* The directory the tool's git commands run in: cwd=str(repo_path).
RepoPath(name) == ResolvePath(JoinPath(BaseDir, name), <<>>)

\* The two git_add_commit_push tools and the two repository-status tools.
GitPushPaths == {"git_add_commit_push", "GitTools.git_add_commit_push"}

GitStatusPaths == {"git_status", "GitTools.get_repository_status"}

\* The arguments of a git tool and what it finds on disk: whether
\* repo_path exists, whether it holds a .git, whether a branch was passed.
GitInputs ==
    [repo_name : RepoNames, exists : BOOLEAN, is_git : BOOLEAN,
     branch_given : BOOLEAN]

\* How a subprocess.run of git ends: return code 0, another return code, or
\* an exception (the executable or the directory is gone).
RunResults == {"ok", "fail", "raise"}

GitInit ==
    /\ path \in GitPushPaths \cup GitStatusPaths
    /\ input \in GitInputs
    /\ pinecone_api_key = TRUE
    /\ relace_api_key = TRUE
    /\ rerank = FALSE
    /\ top_k_after_rerank = None
    /\ num_documents = 0
    /\ query = "q"
    /\ AtEntry
    /\ NoneElsewhere

\* A failure result: the step it names ("none" if it names none) and the
\* commit hash it reports ("none" if it reports none).
GitFailure(step, hash) ==
    [success |-> FALSE, step |-> step, commit_hash |-> hash]

\* The result after a failed push: the tool function returns step "push"
\* and the commit_hash; the GitTools method returns the message "Error: Git
\* push failed: ..." only.
OnPushFailure(p, hash) ==
    IF p = "git_add_commit_push"
      THEN GitFailure("push", hash)
      ELSE GitFailure("push", "none")

\* The except branch: "Git operations error: ...", no step, no hash.
OnGitException == GitFailure("none", "none")

\* The git command cmd runs with cwd=str(repo_path) and leaves the record
\* `after` of what was done.
RunInRepo(cmd, after) ==
    /\ calls' = Append(calls, cmd)
    /\ git' = [after EXCEPT !.cwds = @ \cup {RepoPath(input.repo_name)}]

\* The validation of repo_path: it must exist and hold a .git.
GitStart ==
    /\ path \in GitPushPaths /\ pc = "start"
    /\ IF ~input.exists \/ ~input.is_git
         THEN pc' = "done" /\ output' = GitFailure("none", "none")
         ELSE /\ pc' = IF input.branch_given THEN "add" ELSE "branch"
              /\ UNCHANGED output
    /\ UNCHANGED <<calls, git>>
    /\ DirectUnchanged

\* git branch --show-current, when no branch was passed.
GitBranch ==
    /\ path \in GitPushPaths /\ pc = "branch"
    /\ RunInRepo("branch", git)
    /\ \E r \in RunResults :
         IF r = "ok"
           THEN pc' = "add" /\ UNCHANGED output
           ELSE /\ pc' = "done"
                /\ output' = IF r = "fail" THEN GitFailure("none", "none")
                                           ELSE OnGitException
    /\ DirectUnchanged

\* Step 1: git add <files>.
GitAdd ==
    /\ path \in GitPushPaths /\ pc = "add"
    /\ \E r \in RunResults :
         /\ RunInRepo("add", [git EXCEPT !.add = r])
         /\ IF r = "ok"
              THEN pc' = "commit" /\ UNCHANGED output
              ELSE /\ pc' = "done"
                   /\ output' = IF r = "fail" THEN GitFailure("add", "none")
                                              ELSE OnGitException
    /\ DirectUnchanged

\* Step 2: the git config probes, git commit, and on success git rev-parse
\* HEAD, whose failure leaves commit_hash "unknown".
GitCommit ==
    /\ path \in GitPushPaths /\ pc = "commit"
    /\ \E r \in RunResults, h \in {"hash", "unknown"} :
         IF r = "ok"
           THEN /\ RunInRepo("commit", [git EXCEPT !.commit = r, !.committed = TRUE,
                                                   !.commit_hash = h])
                /\ pc' = "push"
                /\ UNCHANGED output
           ELSE /\ h = "hash"
                /\ RunInRepo("commit", [git EXCEPT !.commit = r])
                /\ pc' = "done"
                /\ output' = IF r = "fail" THEN GitFailure("commit", "none")
                                           ELSE OnGitException
    /\ DirectUnchanged

\* Step 3: git push [--force] origin <branch>; the commit stays whatever
\* the push does.
GitPush ==
    /\ path \in GitPushPaths /\ pc = "push"
    /\ \E r \in RunResults :
         /\ RunInRepo("push", [git EXCEPT !.push = r, !.pushed = (r = "ok")])
         /\ pc' = "done"
         /\ output' = CASE r = "ok" -> [success |-> TRUE, step |-> "none",
                                        commit_hash |-> git.commit_hash]
                        [] r = "fail" -> OnPushFailure(path, git.commit_hash)
                        [] r = "raise" -> OnGitException
    /\ DirectUnchanged

\* git_status / GitTools.get_repository_status: the validation, then git
\* status --porcelain, and after its success the branch and the remote.
GitStatus ==
    /\ path \in GitStatusPaths /\ pc = "start"
    /\ pc' = "done"
    /\ IF ~input.exists \/ ~input.is_git
         THEN /\ output' = GitFailure("none", "none")
              /\ UNCHANGED <<calls, git>>
         ELSE /\ git' = [git EXCEPT !.cwds = @ \cup {RepoPath(input.repo_name)}]
              /\ \E r \in RunResults :
                   IF r = "ok"
                     THEN /\ calls' = calls \o <<"status", "branch", "remote">>
                          /\ output' = [success |-> TRUE, step |-> "none",
                                        commit_hash |-> "none"]
                     ELSE /\ calls' = Append(calls, "status")
                          /\ output' = IF r = "fail"
                                         THEN GitFailure("status", "none")
                                         ELSE OnGitException
    /\ DirectUnchanged

GitNext ==
    \/ GitStart
    \/ GitBranch
    \/ GitAdd
    \/ GitCommit
    \/ GitPush
    \/ GitStatus

\* A retrieval call, a direct call of one component, or a git tool.
FullInit == Init \/ DirectInit \/ GitInit

FullNext == Next \/ DirectNext \/ GitNext

FullSpec == FullInit /\ [][FullNext]_vars

\* Everything a single call works on; the shared-client and side-by-side
\* scenarios leave it at its entry state.
singleCall ==
    <<path, pinecone_api_key, relace_api_key, rerank, top_k_after_rerank,
      num_documents, query, pc, embed_resp, embedding, search_status,
      documents, rerank_resp, compressed_docs, final_documents, outcome,
      result, calls, in_flight, input, output, silent, sessions, git>>

\* The single-call part of the state in a scenario that is not one call.
IdleSingleCall ==
    /\ pinecone_api_key = TRUE
    /\ relace_api_key = TRUE
    /\ rerank = TRUE
    /\ top_k_after_rerank = None
    /\ num_documents = 0
    /\ query = "q"
    /\ input = <<>>
    /\ AtEntry

(* ---------------- a RelaceClient shared by concurrent callers --------- *)

\* The coroutines that use the one client.
Callers == {1, 2}

\* The requests of RelaceClient that go through its aiohttp session.
ClientRequests == {"generate_embeddings", "rank_code_files"}

\* client.session is the id of the session the client holds (0 for None),
\* client.open the sessions that are open, client.created how many were
\* created so far.
ClientInit ==
    /\ path = "RelaceClient"
    /\ IdleSingleCall
    /\ client = [session |-> 0, open |-> {}, created |-> 0]
    /\ callers = [c \in Callers |->
                    [pc |-> "idle", request |-> "none", session |-> 0, ops |-> 0]]
    /\ retrievals = <<>>
    /\ rerankers = <<>>

\* self.session is None or self.session.closed
NeedsSession(cl) == cl.session = 0 \/ cl.session \notin cl.open

\* _get_session: the client creates a session if it holds none or a closed
\* one, and returns the one it holds.
WithSession(cl) ==
    IF NeedsSession(cl)
      THEN [session |-> cl.created + 1, open |-> cl.open \cup {cl.created + 1},
            created |-> cl.created + 1]
      ELSE cl

\* A caller starts generate_embeddings or rank_code_files (with files to
\* rank): it gets the session and posts on it; the coroutine is suspended
\* until the response is there.
ClientPost ==
    \E c \in Callers, r \in ClientRequests :
        /\ path = "RelaceClient"
        /\ callers[c].pc = "idle" /\ callers[c].ops < MaxOps
        /\ client' = WithSession(client)
        /\ callers' = [callers EXCEPT ![c] =
                         [pc |-> "posting", request |-> r,
                          session |-> WithSession(client).session,
                          ops |-> @.ops + 1]]
        /\ UNCHANGED <<singleCall, retrievals, rerankers>>

\* The response (or the error) of a posted request is there.
ClientAnswer ==
    \E c \in Callers :
        /\ path = "RelaceClient"
        /\ callers[c].pc = "posting"
        /\ callers' = [callers EXCEPT ![c].pc = "idle"]
        /\ UNCHANGED <<singleCall, client, retrievals, rerankers>>

\* A caller awaits client.close(): the session the client holds is closed if
\* it is open.
ClientClose ==
    \E c \in Callers :
        /\ path = "RelaceClient"
        /\ callers[c].pc = "idle" /\ callers[c].ops < MaxOps
        /\ client' = IF NeedsSession(client)
                       THEN client
                       ELSE [client EXCEPT !.open = @ \ {client.session}]
        /\ callers' = [callers EXCEPT ![c].ops = @ + 1]
        /\ UNCHANGED <<singleCall, retrievals, rerankers>>

ClientNext ==
    \/ ClientPost
    \/ ClientAnswer
    \/ ClientClose

ClientSpec == ClientInit /\ [][ClientNext]_vars

(* ------------------- retrieval calls side by side --------------------- *)

\* Two calls of retriever in one event loop.
CallIds == {1, 2}

\* What the providers answer the side-by-side calls: the embedding service a
\* vector or an error, the index nothing or two chunks (the first without
\* file_path), the rerank service an error or items naming those chunks.
ConcEmbedResponses ==
    { [status |-> "error", results |-> "absent", data |-> "absent"],
      [status |-> "ok", results |-> "one", data |-> "absent"] }

ConcHits ==
    { h \in Hits(MaxDocs) :
        h = <<>> \/ (Len(h) = 2 /\ h[1].file_path = "" /\ h[2].file_path = "a.py") }

ConcRerankResponses ==
    { [status |-> "error", shape |-> "none", items |-> <<>>] }
      \cup [status : {"ok"}, shape : {"envelope"},
            items : SeqUpTo([filename : {"a.py", "doc_0.txt"}, score : {Some(1)}],
                            MaxItems)]

\* A call of retriever(query, rerank=True, top_k_after_rerank=top_k,
\* num_documents=MaxNum) at its entry.
NewRetrieval(top_k) ==
    [pc |-> "start", top_k_after_rerank |-> top_k, num_documents |-> MaxNum,
     embed_resp |-> NoEmbedResponse, search_status |-> "none", hits |-> <<>>,
     rerank_resp |-> NoResponse, outcome |-> "pending", result |-> <<>>]

ConcInit ==
    /\ path = "retrievers"
    /\ IdleSingleCall
    /\ client = <<>>
    /\ callers = <<>>
    /\ retrievals \in [CallIds -> {NewRetrieval(k) : k \in {None, Some(1), Some(2)}}]
    /\ rerankers = [i \in CallIds |-> [top_n |-> None]]

\* RerankerOf with one reranker object for all calls.
RerankerOf_Singleton(i) == 1

\* The RelaceReranker a call works with: the one it constructs itself.
RerankerOf(i) == i

\* The call runs from its entry to its first network call: it constructs
\* its embedder, its reranker (with top_n) and its vector_db.
ConcStart ==
    \E i \in CallIds :
        /\ path = "retrievers"
        /\ retrievals[i].pc = "start"
        /\ rerankers' = [rerankers EXCEPT ![RerankerOf(i)] =
                           [top_n |-> InitialTopN(retrievals[i].top_k_after_rerank,
                                                  retrievals[i].num_documents)]]
        /\ retrievals' = [retrievals EXCEPT ![i].pc = "embed"]
        /\ UNCHANGED <<singleCall, client, callers>>

\* The embedding request of call i is answered; the index query goes out.
ConcEmbed ==
    \E i \in CallIds, resp \in ConcEmbedResponses :
        /\ path = "retrievers"
        /\ retrievals[i].pc = "embed"
        /\ retrievals' = [retrievals EXCEPT ![i].pc = "search",
                                            ![i].embed_resp = resp]
        /\ UNCHANGED <<singleCall, client, callers, rerankers>>

\* The index query of call i is answered: the call fails, returns the empty
\* list, or normalizes its documents and sends them to the rerank service.
ConcSearch ==
    \E i \in CallIds, ok \in BOOLEAN, hits \in ConcHits :
        /\ path = "retrievers"
        /\ retrievals[i].pc = "search"
        /\ IF get_embedding(retrievals[i].embed_resp) # "vec" \/ ~ok
             THEN /\ hits = <<>>
                  /\ retrievals' = [retrievals EXCEPT ![i].pc = "done",
                                                      ![i].search_status = "error",
                                                      ![i].outcome = "None"]
             ELSE IF hits = <<>>
                    THEN retrievals' = [retrievals EXCEPT
                                          ![i].pc = "done",
                                          ![i].search_status = "ok",
                                          ![i].outcome = OnNoMatches.outcome,
                                          ![i].result = OnNoMatches.result]
                    ELSE retrievals' = [retrievals EXCEPT ![i].pc = "rerank",
                                                          ![i].search_status = "ok",
                                                          ![i].hits = hits]
        /\ UNCHANGED <<singleCall, client, callers, rerankers>>

\* The rerank request of call i is answered: its reranker matches, sorts and
\* cuts to its top_n, and the call returns the formatted documents.
ConcRerank ==
    \E i \in CallIds, resp \in ConcRerankResponses :
        /\ path = "retrievers"
        /\ retrievals[i].pc = "rerank"
        /\ retrievals' = [retrievals EXCEPT
                            ![i].pc = "done",
                            ![i].rerank_resp = resp,
                            ![i].outcome = "list",
                            ![i].result =
                                Format(rerank_async(Normalize(retrievals[i].hits),
                                                    rerankers[RerankerOf(i)].top_n,
                                                    resp))]
        /\ UNCHANGED <<singleCall, client, callers, rerankers>>

ConcNext ==
    \/ ConcStart
    \/ ConcEmbed
    \/ ConcSearch
    \/ ConcRerank

ConcSpec == ConcInit /\ [][ConcNext]_vars

(* ------------------------------ properties ---------------------------- *)

Done == pc = "done"

Called(c) == \E k \in 1..Len(calls) : calls[k] = c

\* The rerank call was made and did not raise.
RerankSucceeded == Done /\ rerank_resp.status = "ok"

\* The rerank response holds a well-formed item for filename f.
NamedInResponse(f) ==
    \E k \in 1..Len(rerank_resp.items) :
        /\ rerank_resp.items[k].filename = f
        /\ rerank_resp.items[k].score # None

\* The score of the last well-formed item for filename f.
LastScoreFor(f) ==
    LET ks == {k \in 1..Len(rerank_resp.items) :
                 /\ rerank_resp.items[k].filename = f
                 /\ rerank_resp.items[k].score # None}
    IN rerank_resp.items[CHOOSE k \in ks : \A m \in ks : m <= k].score

\* The position among the candidates of the document with the id of d.
PosOf(d) == CHOOSE j \in 1..Len(documents) : documents[j].id = d.id

\* The filename the document d was sent to the rerank service under.
SentAs(d) == Filename(documents, PosOf(d))

\* Document d is in the list l.
InList(d, l) == \E i \in 1..Len(l) : l[i].id = d.id

\* s cut to k as the slice s[:k] cuts it: the first k elements, and for a
\* negative k all but the last -k.
Truncate(s, k) ==
    IF k >= 0 THEN SubSeq(s, 1, Min(k, Len(s)))
              ELSE SubSeq(s, 1, Max(0, Len(s) + k))

\* C1: when rerank is requested, the search returned documents and the
\* rerank call raises, the retrieval returns the non-empty list of the
\* pre-rerank documents, not the failure outcome.
C1_RerankFailureFallsBack ==
    (Done /\ rerank /\ documents # <<>> /\ rerank_resp.status = "error")
      => /\ outcome = "list"
         /\ result # <<>>
         /\ result = Format(documents)

C1_Witness ==
    Done /\ rerank /\ Len(documents) = 2 /\ rerank_resp.status = "error"

\* C2: after a successful rerank the rerank scores of the returned documents
\* never increase along the list.
C2_RerankScoresNonIncreasing ==
    RerankSucceeded =>
        \A i \in 1..(Len(final_documents) - 1) :
            final_documents[i].reranking_score[1]
                >= final_documents[i + 1].reranking_score[1]

\* The response listed two documents in ascending score order and both are
\* returned, the higher one first.
C2_Witness ==
    /\ RerankSucceeded
    /\ Len(rerank_resp.items) = 2
    /\ rerank_resp.items[1].score = Some(1)
    /\ rerank_resp.items[2].score = Some(2)
    /\ Len(final_documents) = 2
    /\ final_documents[1].id # final_documents[2].id
    /\ final_documents[1].reranking_score = Some(2)
    /\ final_documents[2].reranking_score = Some(1)

\* The caller's bound on the length of the result: top_k_after_rerank when
\* reranking was applied and the caller supplied a positive value, else
\* num_documents.
CallerBound ==
    IF /\ rerank_resp.status = "ok"
       /\ top_k_after_rerank # None
       /\ top_k_after_rerank[1] > 0
      THEN top_k_after_rerank[1]
      ELSE num_documents

\* C3: the returned list is no longer than the caller's bound and no longer
\* than the list of candidates the search returned, whatever the rerank
\* service answers.
C3_LengthWithinBounds ==
    (Done /\ outcome = "list")
      => /\ Len(result) <= Len(documents)
         /\ Len(result) <= CallerBound

\* C4: after a successful rerank every returned document carries a rerank
\* score and was named by a well-formed item of the response, and no
\* candidate the response does not name is returned.
C4_OnlyScoredDocumentsReturned ==
    RerankSucceeded =>
        /\ result = Format(final_documents)
        /\ \A i \in 1..Len(final_documents) :
               /\ final_documents[i].reranking_score # None
               /\ NamedInResponse(SentAs(final_documents[i]))
        /\ \A j \in 1..Len(documents) :
               ~NamedInResponse(Filename(documents, j))
                   => ~InList(documents[j], result)

\* Two candidates, the response names one of them, and only that one is
\* returned.
C4_Witness ==
    /\ RerankSucceeded
    /\ Len(documents) = 2
    /\ Len(result) = 1
    /\ \E j \in 1..2 : ~NamedInResponse(Filename(documents, j))

\* C5: the ids of the returned documents are pairwise distinct.
C5_ResultIdsDistinct ==
    (Done /\ outcome = "list")
      => \A i, j \in 1..Len(result) : i # j => result[i].id # result[j].id

\* The embedding step failed: the service answered with an error, or with a
\* body that has neither `results` nor `data`.
EmbedFailed ==
    \/ embed_resp.status = "error"
    \/ /\ embed_resp.status = "ok"
       /\ embed_resp.results = "absent"
       /\ embed_resp.data = "absent"

\* C6: once the embedding step has failed, the index is never searched and
\* the call ends with the failure outcome.
C6_EmbedFailureAbortsBeforeSearch ==
    EmbedFailed => /\ ~Called("search")
                   /\ Done => outcome = "None"

C8_UnrecognizedShapeFallsBack ==
    (Done /\ rerank_resp.status = "ok"
          /\ rerank_resp.shape \in {"other", "results_not_list"})
      => /\ result # <<>>
         /\ result = Format(documents)

\* Candidates i and j are different documents sent under the same filename.
SharesName(i, j) == i # j /\ Filename(documents, i) = Filename(documents, j)

\* Candidate i shares its filename with another candidate, and the response
\* scores that filename.
SharedAndScored(i) ==
    /\ \E j \in 1..Len(documents) : SharesName(i, j)
    /\ NamedInResponse(Filename(documents, i))

\* Candidate i is the first / the last of the candidates with its filename.
IsFirstOfName(i) == \A j \in 1..Len(documents) : SharesName(i, j) => i < j

IsLastOfName(i) == \A j \in 1..Len(documents) : SharesName(i, j) => j < i

\* C9 as stated: of the candidates sharing a filename that the response
\* scores, the first one in candidate order is the one matched and scored,
\* and the others are not.
C9_FirstMatchWins ==
    RerankSucceeded =>
        \A i \in 1..Len(documents) :
            SharedAndScored(i) =>
                (IsFirstOfName(i) <=> InList(documents[i], compressed_docs))

\* C9 (amended): of the candidates sharing a filename that the response
\* scores, the last one in candidate order is the one matched, with the score
\* of the last item naming the filename; the others get no score and are
\* not returned.
C9_LastMatchWins ==
    RerankSucceeded =>
        \A i \in 1..Len(documents) :
            SharedAndScored(i) =>
                IF IsLastOfName(i)
                  THEN \E k \in 1..Len(compressed_docs) :
                         /\ compressed_docs[k].id = documents[i].id
                         /\ compressed_docs[k].reranking_score
                              = LastScoreFor(Filename(documents, i))
                  ELSE /\ ~InList(documents[i], compressed_docs)
                       /\ ~InList(documents[i], result)

\* Two candidates named a.py, the response scores a.py, one document comes
\* back.
C9_Witness ==
    /\ RerankSucceeded
    /\ Len(documents) = 2
    /\ SharesName(1, 2)
    /\ NamedInResponse(Filename(documents, 1))
    /\ Len(result) >= 1

\* C10 as stated: the sorted matches are cut to top_k_after_rerank whenever
\* the caller supplied it, else to max(1, num_documents // 2).
C10_TruncatedToTopK ==
    RerankSucceeded =>
        final_documents =
            IF top_k_after_rerank # None
              THEN Truncate(compressed_docs, top_k_after_rerank[1])
              ELSE Truncate(compressed_docs, Max(1, num_documents \div 2))

\* C10 (amended): the sorted matches are cut to top_k_after_rerank when the
\* caller supplied a positive value, to max(1, num_documents // 2) when it
\* supplied none or 0, and are not cut at all when it supplied a negative
\* value.
C10_TruncatedToPositiveTopK ==
    RerankSucceeded =>
        final_documents =
            IF top_k_after_rerank # None /\ top_k_after_rerank[1] > 0
              THEN Truncate(compressed_docs, top_k_after_rerank[1])
              ELSE IF top_k_after_rerank # None /\ top_k_after_rerank[1] < 0
                     THEN compressed_docs
                     ELSE Truncate(compressed_docs, Max(1, num_documents \div 2))

\* No top_k_after_rerank, num_documents = 3, two matches: one is returned.
C10_Witness ==
    /\ RerankSucceeded
    /\ top_k_after_rerank = None
    /\ num_documents = 3
    /\ Len(compressed_docs) = 2
    /\ Len(final_documents) = 1

\* The similarity score the returned record r came out of the search with.
AnnScoreOf(r) == documents[PosOf(r)].ann_score

\* C11: when the rerank call raises, the returned list is the list of the
\* pre-rerank documents as normalized, in descending order of their
\* similarity score and no longer than num_documents.
C11_FallbackIsSearchOrder ==
    (Done /\ rerank /\ documents # <<>> /\ rerank_resp.status = "error")
      => /\ Len(result) = Len(documents)
         /\ \A i \in 1..Len(result) :
                /\ result[i].id = documents[i].id
                /\ result[i].content = documents[i].content
         /\ \A i \in 1..(Len(result) - 1) :
                AnnScoreOf(result[i]) >= AnnScoreOf(result[i + 1])
         /\ Len(result) <= num_documents

\* The rerank call raised with num_documents = 2 and two documents found:
\* both come back, the nearer one first.
C11_Witness ==
    /\ Done /\ rerank /\ rerank_resp.status = "error"
    /\ num_documents = 2
    /\ Len(result) = 2
    /\ AnnScoreOf(result[1]) > AnnScoreOf(result[2])

\* C12: the rerank service is never sent a request with zero candidates: a
\* retrieval call only calls it with documents, and the rerank client (sync
\* and async) and the reranker, called with nothing to rank, return the
\* empty list without a request.
C12_NoRerankRequestWithoutCandidates ==
    /\ (path = "retriever" /\ Called("rerank")) => documents # <<>>
    /\ (path \in {"rank_code_files", "rank_code_files_sync"} /\ Done)
         => /\ Called("rerank") => input.codebase # <<>>
            /\ input.codebase = <<>>
                 => (~output.raised /\ output.value = <<>>)
    /\ (path \in {"rerank_async", "rerank"} /\ Done)
         => /\ Called("rerank") => input.documents # <<>>
            /\ input.documents = <<>> => output = <<>>

\* The async client was called with an empty codebase and has returned.
C12_Witness ==
    /\ path = "rank_code_files" /\ Done
    /\ input.codebase = <<>>
    /\ output.value = <<>>
    /\ calls = <<>>

\* C13: with the relace or the pinecone API key missing, the call makes no
\* network call at all and ends with the failure outcome.
C13_MissingKeyFailsBeforeNetwork ==
    (path \in {"retriever", "pinecone_retriever"}
       /\ (~relace_api_key \/ ~pinecone_api_key))
      => /\ calls = <<>>
         /\ in_flight = {}
         /\ pc \in {"start", "done"}
         /\ Done => outcome = "None"

\* Only the relace key is missing and the call has ended.
C13_Witness ==
    /\ Done /\ path = "retriever"
    /\ pinecone_api_key /\ ~relace_api_key
    /\ outcome = "None" /\ calls = <<>>

\* C14: a call with the empty query string makes no network call and ends
\* with the failure outcome.
C14_EmptyQueryFailsFast ==
    (path \in {"retriever", "pinecone_retriever"} /\ query = "")
      => /\ calls = <<>>
         /\ Done => outcome = "None"

\* A failure on the mandatory path: a missing key, an embedding failure or a
\* search failure.
MandatoryFailure ==
    \/ ~relace_api_key
    \/ ~pinecone_api_key
    \/ EmbedFailed
    \/ embedding = "empty"
    \/ search_status = "error"

\* C15: a retrieval call ends with the failure outcome None or with a list,
\* never otherwise; every failure on the mandatory path ends it with None,
\* and a list (the empty one included) means the search succeeded.
C15_FailureIsNoneNotEmptyList ==
    (path \in {"retriever", "pinecone_retriever"} /\ Done)
      => /\ outcome \in {"None", "list"}
         /\ MandatoryFailure => outcome = "None"
         /\ outcome = "list" => (search_status = "ok" /\ ~MandatoryFailure)
         /\ in_flight = {}

\* The embedding succeeded, the search failed, and the call returned None.
C15_Witness ==
    /\ Done /\ path = "retriever"
    /\ embedding = "vec" /\ search_status = "error"
    /\ outcome = "None"

\* C16: with rerank disabled the rerank service is not called, and the
\* result is the search hits one to one: same length, same order.
C16_NoRerankReturnsSearchHits ==
    (path \in {"retriever", "pinecone_retriever"} /\ ~rerank)
      => /\ ~Called("rerank")
         /\ (Done /\ search_status = "ok")
              => /\ outcome = "list"
                 /\ Len(result) = Len(documents)
                 /\ \A i \in 1..Len(result) :
                        /\ result[i].id = documents[i].id
                        /\ result[i].name = documents[i].name
                        /\ result[i].content = documents[i].content
                 /\ final_documents = documents

\* Rerank disabled, two hits, two records returned.
C16_Witness ==
    /\ Done /\ path = "retriever" /\ ~rerank
    /\ Len(documents) = 2
    /\ Len(result) = 2
    /\ result[1].id # result[2].id

\* C17: the normalization gives a search result whose own content is empty
\* and whose metadata has a non-empty `content` that metadata value as
\* content, and leaves a result with content of its own its content.
C17_ContentFallsBackToMetadata ==
    (path = "normalize" /\ Done)
      => /\ Len(output) = Len(input)
         /\ \A i \in 1..Len(input) :
                /\ (input[i].content = "" /\ input[i].meta_content \notin {Absent, ""})
                     => output[i].content = input[i].meta_content
                /\ input[i].content # "" => output[i].content = input[i].content

\* Two results with `content` in the metadata: the first without content of
\* its own takes it, the second keeps its own.
C17_Witness ==
    /\ path = "normalize" /\ Done
    /\ Len(input) = 2
    /\ input[1].content = "" /\ input[1].meta_content = "code"
    /\ output[1].content = "code"
    /\ input[2].content = "own" /\ input[2].meta_content = "code"
    /\ output[2].content = "own"

\* C18: on every path that embeds the query, a 200 response that holds a
\* vector under `results` or under `data` gives the query vector.
C18_BothEmbeddingShapesAccepted ==
    (path \in {"retriever", "pinecone_retriever"}
       /\ embed_resp.status = "ok"
       /\ (embed_resp.results = "one" \/ embed_resp.data = "one"))
      => embedding = "vec"

\* The positions of the items of a response body that are records with both
\* a filename and a score.
WellFormedAt(items) ==
    {k \in 1..Len(items) : items[k].filename # Absent /\ items[k].score # None}

\* The position of the j-th well-formed item.
NthWellFormed(items, j) ==
    CHOOSE k \in WellFormedAt(items) :
        Cardinality({m \in WellFormedAt(items) : m <= k}) = j

\* C19: from a 200 response that is a list of items (bare or under
\* `results`) the rerank client, sync and async, returns exactly the items
\* that have both filename and score, in their order in the response.
C19_MalformedItemsSkipped ==
    (/\ path \in {"rank_code_files", "rank_code_files_sync"} /\ Done
     /\ input.codebase # <<>>
     /\ input.resp.status = "ok"
     /\ input.resp.shape \in {"envelope", "list"})
      => /\ ~output.raised
         /\ Len(output.value) = Cardinality(WellFormedAt(input.resp.items))
         /\ \A j \in 1..Len(output.value) :
                output.value[j] = input.resp.items[NthWellFormed(input.resp.items, j)]

\* An item without score in front of a well-formed one: only the second is
\* returned.
C19_Witness ==
    /\ path = "rank_code_files_sync" /\ Done
    /\ input.codebase # <<>>
    /\ input.resp.status = "ok"
    /\ Len(input.resp.items) = 2
    /\ input.resp.items[1].filename = "a.py" /\ input.resp.items[1].score = None
    /\ input.resp.items[2].filename = "b.py" /\ input.resp.items[2].score # None
    /\ output.value = <<input.resp.items[2]>>

\* The position of call c in the sequence of calls made.
CallIndex(c) == CHOOSE k \in 1..Len(calls) : calls[k] = c

\* C20: within one retrieval call at most one network call is in flight at
\* any time, and a call is only issued once the call before it is back: the
\* search after the embedding, the rerank after the search.
C20_NetworkCallsSequential ==
    (path \in {"retriever", "pinecone_retriever"})
      => /\ Cardinality(in_flight) <= 1
         /\ \A k \in 1..Len(calls) :
                calls[k] \in in_flight => k = Len(calls)
         /\ \A j, k \in 1..Len(calls) : j # k => calls[j] # calls[k]
         /\ Called("search")
              => (Called("embed") /\ CallIndex("embed") < CallIndex("search"))
         /\ Called("rerank")
              => (Called("search") /\ CallIndex("search") < CallIndex("rerank"))

\* The rerank call is out, after the embedding and the search came back.
C20_Witness ==
    /\ path = "retriever"
    /\ calls = <<"embed", "search", "rerank">>
    /\ in_flight = {"rerank"}
    /\ search_status = "ok"

WithKey(l, k) == SelectSeq(l, LAMBDA d : SortKey(d) = k)

\* The matched documents in the order of the rerank response, before the
\* sort.
ResponseOrder == MatchResults(documents, rank_code_files(rerank_resp).value)

\* C22: after a successful rerank, documents with equal rerank scores stand
\* in the sorted list in the order the rerank response named them, and the
\* returned list is the front of that sorted list.
C22_SortIsStable ==
    RerankSucceeded =>
        /\ \A k \in {SortKey(compressed_docs[i]) : i \in 1..Len(compressed_docs)} :
               WithKey(compressed_docs, k) = WithKey(ResponseOrder, k)
        /\ Len(final_documents) <= Len(compressed_docs)
        /\ final_documents = SubSeq(compressed_docs, 1, Len(final_documents))

\* The response names the second hit and then the first with the same score:
\* they are returned in that order.
C22_Witness ==
    /\ RerankSucceeded
    /\ Len(rerank_resp.items) = 2
    /\ rerank_resp.items[1].score = rerank_resp.items[2].score
    /\ rerank_resp.items[1].score # None
    /\ Len(result) = 2
    /\ result[1].id = 2 /\ result[2].id = 1
    /\ SentAs(final_documents[1]) = rerank_resp.items[1].filename
    /\ SentAs(final_documents[2]) = rerank_resp.items[2].filename

\* The response `resp` with its list of items sent in the other shape: bare
\* instead of under `results`, or the reverse.
OtherShape(resp) ==
    [resp EXCEPT !.shape = IF resp.shape = "list" THEN "envelope" ELSE "list"]

\* C27: the rerank client, sync and async, returns the same for a bare list
\* of items and for the same list under `results`, whatever the items are.
C27_ListAndEnvelopeAgree ==
    (/\ path \in {"rank_code_files", "rank_code_files_sync"} /\ Done
     /\ input.resp.status = "ok"
     /\ input.resp.shape \in {"envelope", "list"})
      => /\ output = rank_code_files_async(input.codebase, OtherShape(input.resp))
         /\ output = rank_code_files_sync(input.codebase, OtherShape(input.resp))

\* A bare list with a malformed item in it came back without that item, as
\* the envelope would.
C27_Witness ==
    /\ path = "rank_code_files" /\ Done
    /\ input.codebase # <<>>
    /\ input.resp.status = "ok" /\ input.resp.shape = "list"
    /\ Len(input.resp.items) = 2
    /\ input.resp.items[1].score = None
    /\ Len(output.value) = 1

\* C29: RelaceReranker.rerank and RelaceReranker.rerank_async return the
\* same documents with the same scores in the same order, for every document
\* list, top_n and response or error of the rerank service, and send the
\* same requests.
C29_SyncAndAsyncRerankAgree ==
    /\ (path = "rerank" /\ Done)
         => /\ output = rerank_async(input.documents, input.top_n, input.resp)
            /\ Called("rerank") = (input.documents # <<>>)
    /\ (path = "rerank_async" /\ Done)
         => /\ output = rerank_sync(input.documents, input.top_n, input.resp)
            /\ Called("rerank") = (input.documents # <<>>)

\* The sync reranker with a negative top_n and two matches returns both.
C29_Witness ==
    /\ path = "rerank" /\ Done
    /\ input.top_n = Some(-1)
    /\ input.resp.status = "ok"
    /\ Len(output) = 2
    /\ output[1].id # output[2].id

\* C24: a retrieval call that has not returned can always go on, also when
\* the provider it waits for never answers: the call in flight ends by its
\* answer or by its timeout.
C24_EveryCallCanGoOn ==
    (path \in {"retriever", "pinecone_retriever"}) => (Done \/ ENABLED Next)

\* C28: when a retrieval call has returned, none of the HTTP sessions it
\* opened is still open.
C28_SessionsClosedAtReturn ==
    (path \in {"retriever", "pinecone_retriever"} /\ Done)
      => \A c \in DOMAIN sessions : sessions[c] # "open"

\* directory d lies under the directory base.
IsUnder(base, d) == Len(d) > Len(base) /\ SubSeq(d, 1, Len(base)) = base

\* C26: whatever repo_name is passed, git_add_commit_push and the
\* repository-status tool run git only in directories under the base
\* directory.
C26_GitStaysUnderBaseDir ==
    (path \in GitPushPaths \cup GitStatusPaths)
      => \A d \in git.cwds : IsUnder(BaseDir, d)

\* A step of git_add_commit_push failed: git ended with a return code other
\* than 0.
StepFailed(step) == step = "fail"

\* C30: git_add_commit_push runs add, commit, push in this order; commit
\* only after add succeeded, push only after commit succeeded; it reports
\* success only when all three succeeded; a failure names the failing step,
\* and a failed push reports the hash of the commit, which stays.
C30_AddCommitPushInOrder ==
    (path \in GitPushPaths)
      => /\ Called("commit") => (Called("add") /\ git.add = "ok")
         /\ Called("push") => (Called("commit") /\ git.commit = "ok")
         /\ \A j, k \in 1..Len(calls) : j # k => calls[j] # calls[k]
         /\ (Done /\ output.success)
              => (git.add = "ok" /\ git.commit = "ok" /\ git.push = "ok")
         /\ (Done /\ StepFailed(git.add)) => (~output.success /\ output.step = "add")
         /\ (Done /\ StepFailed(git.commit))
              => (~output.success /\ output.step = "commit")
         /\ (Done /\ StepFailed(git.push))
              => /\ ~output.success /\ output.step = "push"
                 /\ git.committed
                 /\ output.commit_hash = git.commit_hash

\* What the call r returns when it runs alone and the providers answer what
\* they answered it.
Alone(r) ==
    IF r.search_status = "error"
      THEN [outcome |-> "None", result |-> <<>>]
      ELSE IF r.hits = <<>>
             THEN [outcome |-> "list", result |-> <<>>]
             ELSE [outcome |-> "list",
                   result |-> Format(rerank_async(
                                  Normalize(r.hits),
                                  InitialTopN(r.top_k_after_rerank, r.num_documents),
                                  r.rerank_resp))]

\* C23: of two retrieval calls interleaved at their network calls, each
\* returns what it returns alone for the same answers of the providers.
C23_ConcurrentCallsIndependent ==
    (path = "retrievers")
      => \A i \in CallIds :
             retrievals[i].pc = "done"
               => /\ retrievals[i].outcome = Alone(retrievals[i]).outcome
                  /\ retrievals[i].result = Alone(retrievals[i]).result

\* Call 1 (top_k_after_rerank 1) returned one of its two matches while call
\* 2 (top_k_after_rerank 2), started in between, waits for the rerank
\* service.
C23_Witness ==
    /\ path = "retrievers"
    /\ retrievals[1].top_k_after_rerank = Some(1)
    /\ retrievals[2].top_k_after_rerank = Some(2)
    /\ retrievals[2].pc = "rerank"
    /\ retrievals[1].pc = "done"
    /\ Len(retrievals[1].rerank_resp.items) = 2
    /\ retrievals[1].rerank_resp.items[1] # retrievals[1].rerank_resp.items[2]
    /\ Len(retrievals[1].result) = 1

\* C25: a RelaceClient used by concurrent callers holds at most one open
\* session at a time, and a request that is under way runs on an open
\* session, whatever another caller does in the meantime.
C25_SharedClientSafe ==
    (path = "RelaceClient")
      => /\ Cardinality(client.open) <= 1
         /\ \A c \in Callers :
                callers[c].pc = "posting" => callers[c].session \in client.open

====
